---- MODULE Spec2Model ----
\* Model of src/src/server.rs: the HTTP front end of wifi-connect.  Request
\* workers run the iron chain (RequestLogger, persistent::Write, the mounted
\* router with the handlers `networks` and `connect`, RedirectMiddleware) and
\* share one RequestSharedState behind a mutex: the gateway address, the
\* command channel network_tx, the response channel server_rx and the
\* shutdown channel exit_tx.
EXTENDS Integers, Sequences, FiniteSets, TLC

\* Number of requests served in one run.
NumReqs == 2

Reqs == 1..NumReqs

\* ------------------------------------------------------------------ inputs

\* The address the server is configured with (start_server's `gateway`), and
\* another address of the network.
GatewayAddr == <<192, 168, 42, 1>>
OtherAddr == <<10, 0, 0, 1>>

\* format!("{}", Ipv4Addr): dotted decimal.
format_ip(ip) ==
    ToString(ip[1]) \o "." \o ToString(ip[2]) \o "." \o ToString(ip[3]) \o "." \o ToString(ip[4])

\* The Host header of a request: absent, or a hostname.
NoHost == [present |-> FALSE, hostname |-> ""]
Hosts == {NoHost} \cup {[present |-> TRUE, hostname |-> format_ip(g)] : g \in {GatewayAddr, OtherAddr}}

\* What the mounted router resolves a request to: the two handlers, an asset
\* the static file server finds, or nothing (a routing failure).
Routes == {"networks", "connect", "asset", "missing"}

\* params::Value of one request parameter: absent from the map, a string, or
\* a value of another variant (array, map, ...).
Absent == [tag |-> "Absent", s |-> ""]
NonString == [tag |-> "Array", s |-> ""]
Str(s) == [tag |-> "String", s |-> s]

ParamNames == {"ssid", "identity", "passphrase"}

GoodParams == [ssid |-> Str("Home"), identity |-> Str(""), passphrase |-> Str("secret")]

\* The parameter maps of the connect requests of a run: a complete one, and
\* one defect (absent or not a string) in each parameter.
ParamMaps ==
    {GoodParams,
     [GoodParams EXCEPT !.ssid = Absent],
     [GoodParams EXCEPT !.identity = NonString],
     [GoodParams EXCEPT !.passphrase = Absent]}

NoParams == [ssid |-> Absent, identity |-> Absent, passphrase |-> Absent]

NoReq == [route |-> "none", host |-> NoHost, params |-> NoParams]

\* The requests of a run.  The parameters are read by connect alone and the
\* host by the redirect filter alone, so a complete parameter map comes with
\* every host and each defective one with one host: absent ssid with another
\* host, non-string identity with no host, absent passphrase with the gateway.
DefectHost(p) ==
    IF p.ssid.tag # "String" THEN [present |-> TRUE, hostname |-> format_ip(OtherAddr)]
    ELSE IF p.identity.tag # "String" THEN NoHost
    ELSE [present |-> TRUE, hostname |-> format_ip(GatewayAddr)]

RequestInputs ==
    {[route |-> rt, host |-> h, params |-> NoParams] :
        rt \in Routes \ {"connect"}, h \in Hosts}
    \cup {[route |-> "connect", host |-> h, params |-> GoodParams] : h \in Hosts}
    \cup {[route |-> "connect", host |-> DefectHost(p), params |-> p] :
              p \in ParamMaps \ {GoodParams}}

\* The network lists the controller answers with.
NetLists == {<< >>, <<"Home", "Cafe">>}

\* A network that serde_json's serializer rejects, and a list holding one.
Unencodable == "?"
BadList == <<"Home", Unencodable>>

\* ------------------------------------------------------------------ values

Activate == [type |-> "Activate", ssid |-> "", identity |-> "", passphrase |-> ""]
Connect(ssid, identity, passphrase) ==
    [type |-> "Connect", ssid |-> ssid, identity |-> identity, passphrase |-> passphrase]

\* An IronResult<Response>: Ok(response) or Err(IronError), with the status,
\* the body (JSON tokens), the Location of a redirect and the description of
\* an error.
NoResult == [ok |-> FALSE, status |-> 0, body |-> << >>, location |-> "", desc |-> ""]
OkResponse(body) == [ok |-> TRUE, status |-> 200, body |-> body, location |-> "", desc |-> ""]
Found(url) == [ok |-> TRUE, status |-> 302, body |-> << >>, location |-> url, desc |-> ""]
IronError(desc, status) ==
    [ok |-> FALSE, status |-> status, body |-> << >>, location |-> "", desc |-> desc]

\* A received NetworkCommandResponse::Networks; `for` is the position, in the
\* order of sending, of the command the controller produced it for.
NoResponse == [networks |-> << >>, for |-> 0]

\* ------------------------------------------------------------------ pure functions

\* Reverse of a list.
RECURSIVE reverse(_)
reverse(l) == IF l = << >> THEN << >> ELSE Append(reverse(Tail(l)), Head(l))

\* serde_json::to_string(&networks): the tokens of a JSON array.
RECURSIVE json_elems(_)
json_elems(networks) ==
    IF networks = << >> THEN << >>
    ELSE IF Len(networks) = 1 THEN <<"{", Head(networks), "}">>
    ELSE <<"{", Head(networks), "}", ",">> \o json_elems(Tail(networks))

\* Variant of to_string: the elements are written last to first.
to_string_reversed(networks) ==
    [ok |-> TRUE, json |-> <<"[">> \o json_elems(reverse(networks)) \o <<"]">>]

to_string(networks) ==
    IF \E i \in 1..Len(networks) : networks[i] = Unencodable
    THEN [ok |-> FALSE, json |-> << >>]
    ELSE [ok |-> TRUE, json |-> <<"[">> \o json_elems(networks) \o <<"]">>]

\* The list a JSON array of networks denotes (the client's reading of a body).
RECURSIVE json_parse_elems(_)
json_parse_elems(toks) ==
    IF Len(toks) < 3 THEN << >>
    ELSE <<toks[2]>> \o json_parse_elems(SubSeq(toks, IF Len(toks) > 3 THEN 5 ELSE 4, Len(toks)))

from_str(json) ==
    IF Len(json) < 2 THEN << >> ELSE json_parse_elems(SubSeq(json, 2, Len(json) - 1))

\* Variant of get_param: the type of a present value is not checked.
get_param_untyped(params, name) ==
    IF params[name].tag = "Absent"
    THEN [ok |-> FALSE, value |-> "",
          err |-> "'" \o name \o "' not found in request params"]
    ELSE [ok |-> TRUE, value |-> params[name].s, err |-> ""]

\* get_param!(params, name, String): the string, or the error returned.
get_param(params, name) ==
    IF params[name].tag = "Absent"
    THEN [ok |-> FALSE, value |-> "",
          err |-> "'" \o name \o "' not found in request params"]
    ELSE IF params[name].tag # "String"
    THEN [ok |-> FALSE, value |-> "", err |-> "Unexpected type for '" \o name \o "'"]
    ELSE [ok |-> TRUE, value |-> params[name].s, err |-> ""]

\* ------------------------------------------------------------------ state

VARIABLES
    gateway,      \* RequestSharedState.gateway
    lock,         \* holder of the mutex around RequestSharedState, 0 when free
    network_tx,   \* command channel: commands sent and not yet taken by the controller
    server_rx,    \* response channel: responses produced and not yet received
    exit_tx,      \* shutdown channel: the signals sent
    exitRxAlive,  \* the process supervisor still holds the receiver of exit_tx
    server,       \* the HTTP listener: "starting", "listening" or "failed"
    cmdRxAlive,   \* the controller still holds the receiver of network_tx
    respTxAlive,  \* the controller still holds the sender of server_rx
    pc,           \* position of each request worker
    req,          \* the request each worker serves
    ekind,        \* the ErrorKind a handler is escalating with
    got,          \* the response a networks handler received
    result,       \* what the handler returned to the chain
    reply,        \* what the chain returned to the client
    cmdLog,       \* history: every command sent, in order, with its sender
    respLog       \* history: every response the controller produced, in order

vars == <<gateway, lock, network_tx, server_rx, exit_tx, exitRxAlive, server,
          cmdRxAlive, respTxAlive, pc, req, ekind, got, result, reply, cmdLog, respLog>>

chans == <<network_tx, server_rx, exit_tx, cmdLog>>
ctl == <<cmdRxAlive, respTxAlive, respLog, exitRxAlive, server>>

Init ==
    /\ gateway = GatewayAddr
    /\ lock = 0
    /\ network_tx = << >>
    /\ server_rx = << >>
    /\ exit_tx = << >>
    /\ exitRxAlive = TRUE
    /\ server = "starting"
    /\ cmdRxAlive = TRUE
    /\ respTxAlive = TRUE
    /\ pc = [r \in Reqs |-> "idle"]
    /\ req = [r \in Reqs |-> NoReq]
    /\ ekind = [r \in Reqs |-> "None"]
    /\ got = [r \in Reqs |-> NoResponse]
    /\ result = [r \in Reqs |-> NoResult]
    /\ reply = [r \in Reqs |-> NoResult]
    /\ cmdLog = << >>
    /\ respLog = << >>

\* Position, in the order of sending, of the command request r sent (0: none).
cmdIdx(r) ==
    IF \E i \in 1..Len(cmdLog) : cmdLog[i].by = r
    THEN CHOOSE i \in 1..Len(cmdLog) : cmdLog[i].by = r
    ELSE 0

\* exit(&exit_tx, error): the send on the shutdown channel never blocks (the
\* channel is unbounded) and its failure, when the receiver is gone, is ignored.
exit(signal) == IF exitRxAlive THEN Append(exit_tx, signal) ELSE exit_tx

\* ------------------------------------------------------------------ server start

\* Iron::new(chain).http(&address) succeeds: requests are served from now on.
start_server_listen ==
    /\ server = "starting"
    /\ server' = "listening"
    /\ UNCHANGED <<gateway, lock, chans, cmdRxAlive, respTxAlive, respLog, exitRxAlive,
                   pc, req, ekind, got, result, reply>>

\* Variant of start_server_fail: the failure to listen is not signalled.
start_server_fail_silent ==
    /\ server = "starting"
    /\ server' = "failed"
    /\ UNCHANGED <<gateway, lock, chans, cmdRxAlive, respTxAlive, respLog, exitRxAlive,
                   pc, req, ekind, got, result, reply>>

\* Iron::new(chain).http(&address) fails: start_server signals StartHTTPServer
\* and returns; no request is ever served.
start_server_fail ==
    /\ server = "starting"
    /\ server' = "failed"
    /\ exit_tx' = exit([kind |-> "StartHTTPServer", by |-> 0])
    /\ UNCHANGED <<gateway, lock, network_tx, server_rx, cmdLog, cmdRxAlive, respTxAlive,
                   respLog, exitRxAlive, pc, req, ekind, got, result, reply>>

\* ------------------------------------------------------------------ chain entry

\* A request arrives: the before middleware (RequestLogger, persistent::Write)
\* and the router's dispatch.  Requests are numbered in order of arrival.
Dispatch(r, q) ==
    /\ server = "listening"
    /\ pc[r] = "idle"
    /\ \A o \in Reqs : o < r => pc[o] # "idle"
    /\ req' = [req EXCEPT ![r] = q]
    /\ pc' = [pc EXCEPT ![r] =
                CASE q.route = "networks" -> "n_lock"
                  [] q.route = "connect" -> "c_params"
                  [] OTHER -> "static"]
    /\ UNCHANGED <<gateway, lock, chans, ctl, ekind, got, result, reply>>

\* The static file server, or the router finding no route.
StaticHandle(r) ==
    /\ pc[r] = "static"
    /\ result' = [result EXCEPT ![r] =
                    IF req[r].route = "asset" THEN OkResponse(<<"asset">>)
                    ELSE IronError("NotFound", 404)]
    /\ pc' = [pc EXCEPT ![r] = "after"]
    /\ UNCHANGED <<gateway, lock, chans, ctl, req, ekind, got, reply>>

\* ------------------------------------------------------------------ escalation

\* Variant of exit_with_error: nothing is sent on exit_tx.
exit_with_error_silent(r) ==
    /\ pc[r] = "exit"
    /\ result' = [result EXCEPT ![r] = IronError(ekind[r], 500)]
    /\ lock' = 0
    /\ pc' = [pc EXCEPT ![r] = "after"]
    /\ UNCHANGED <<gateway, chans, ctl, req, ekind, got, reply>>

\* Variant of exit_with_error: only the first failure of a run is signalled.
exit_with_error_once(r) ==
    /\ pc[r] = "exit"
    /\ exit_tx' = IF exit_tx = << >> THEN <<[kind |-> ekind[r], by |-> r]>> ELSE exit_tx
    /\ result' = [result EXCEPT ![r] = IronError(ekind[r], 500)]
    /\ lock' = 0
    /\ pc' = [pc EXCEPT ![r] = "after"]
    /\ UNCHANGED <<gateway, network_tx, server_rx, cmdLog, ctl, req, ekind, got, reply>>

\* Variant of exit_with_error: the send waits for a live receiver.
exit_with_error_blocking(r) ==
    /\ pc[r] = "exit"
    /\ exitRxAlive
    /\ exit_tx' = Append(exit_tx, [kind |-> ekind[r], by |-> r])
    /\ result' = [result EXCEPT ![r] = IronError(ekind[r], 500)]
    /\ lock' = 0
    /\ pc' = [pc EXCEPT ![r] = "after"]
    /\ UNCHANGED <<gateway, network_tx, server_rx, cmdLog, ctl, req, ekind, got, reply>>

\* Variant of exit_with_error: the caller's guard outlives the handler.
exit_with_error_keeplock(r) ==
    /\ pc[r] = "exit"
    /\ exit_tx' = exit([kind |-> ekind[r], by |-> r])
    /\ result' = [result EXCEPT ![r] = IronError(ekind[r], 500)]
    /\ pc' = [pc EXCEPT ![r] = "after"]
    /\ UNCHANGED <<gateway, lock, network_tx, server_rx, cmdLog, ctl, req, ekind, got, reply>>

\* exit_with_error: send the classified error on exit_tx and return a 500
\* carrying the classification; the caller returns it, which drops its guard.
exit_with_error(r) ==
    /\ pc[r] = "exit"
    /\ exit_tx' = exit([kind |-> ekind[r], by |-> r])
    /\ result' = [result EXCEPT ![r] = IronError(ekind[r], 500)]
    /\ lock' = 0
    /\ pc' = [pc EXCEPT ![r] = "after"]
    /\ UNCHANGED <<gateway, network_tx, server_rx, cmdLog, ctl, req, ekind, got, reply>>

\* ------------------------------------------------------------------ networks

\* Variant of networks_lock: the handler does not wait for the mutex.
networks_lock_nowait(r) ==
    /\ pc[r] = "n_lock"
    /\ lock' = r
    /\ pc' = [pc EXCEPT ![r] = "n_send"]
    /\ UNCHANGED <<gateway, chans, ctl, req, ekind, got, result, reply>>

\* get_request_state!(req) at the top of networks: blocks until the mutex is free.
networks_lock(r) ==
    /\ pc[r] = "n_lock"
    /\ lock = 0
    /\ lock' = r
    /\ pc' = [pc EXCEPT ![r] = "n_send"]
    /\ UNCHANGED <<gateway, chans, ctl, req, ekind, got, result, reply>>

\* Variant of networks_send: the guard is dropped once the command is sent.
networks_send_unlock(r) ==
    /\ pc[r] = "n_send"
    /\ IF cmdRxAlive
       THEN /\ network_tx' = Append(network_tx, [cmd |-> Activate, id |-> Len(cmdLog) + 1])
            /\ cmdLog' = Append(cmdLog, [cmd |-> Activate, by |-> r])
            /\ pc' = [pc EXCEPT ![r] = "n_recv"]
            /\ lock' = 0
            /\ UNCHANGED ekind
       ELSE /\ ekind' = [ekind EXCEPT ![r] = "SendNetworkCommandActivate"]
            /\ pc' = [pc EXCEPT ![r] = "exit"]
            /\ UNCHANGED <<network_tx, cmdLog, lock>>
    /\ UNCHANGED <<gateway, server_rx, exit_tx, ctl, req, got, result, reply>>

\* network_tx.send(Activate): fails when the receiver is gone.
networks_send(r) ==
    /\ pc[r] = "n_send"
    /\ IF cmdRxAlive
       THEN /\ network_tx' = Append(network_tx, [cmd |-> Activate, id |-> Len(cmdLog) + 1])
            /\ cmdLog' = Append(cmdLog, [cmd |-> Activate, by |-> r])
            /\ pc' = [pc EXCEPT ![r] = "n_recv"]
            /\ UNCHANGED ekind
       ELSE /\ ekind' = [ekind EXCEPT ![r] = "SendNetworkCommandActivate"]
            /\ pc' = [pc EXCEPT ![r] = "exit"]
            /\ UNCHANGED <<network_tx, cmdLog>>
    /\ UNCHANGED <<gateway, lock, server_rx, exit_tx, ctl, req, got, result, reply>>

\* Variant of networks_recv: the oldest response is read and left on the channel.
networks_recv_peek(r) ==
    /\ pc[r] = "n_recv"
    /\ \/ /\ server_rx # << >>
          /\ got' = [got EXCEPT ![r] = Head(server_rx)]
          /\ pc' = [pc EXCEPT ![r] = "n_ser"]
          /\ UNCHANGED <<ekind, server_rx>>
       \/ /\ server_rx = << >>
          /\ ~respTxAlive
          /\ ekind' = [ekind EXCEPT ![r] = "RecvAccessPointSSIDs"]
          /\ pc' = [pc EXCEPT ![r] = "exit"]
          /\ UNCHANGED <<got, server_rx>>
    /\ UNCHANGED <<gateway, lock, network_tx, exit_tx, cmdLog, ctl, req, result, reply>>

\* Variant of networks_recv: a closed channel is not noticed.
networks_recv_nofail(r) ==
    /\ pc[r] = "n_recv"
    /\ server_rx # << >>
    /\ got' = [got EXCEPT ![r] = Head(server_rx)]
    /\ server_rx' = Tail(server_rx)
    /\ pc' = [pc EXCEPT ![r] = "n_ser"]
    /\ UNCHANGED <<gateway, lock, network_tx, exit_tx, cmdLog, ctl, req, ekind, result, reply>>

\* Variant of networks_recv: a failed receive is classified as a failed send.
networks_recv_miskind(r) ==
    /\ pc[r] = "n_recv"
    /\ \/ /\ server_rx # << >>
          /\ got' = [got EXCEPT ![r] = Head(server_rx)]
          /\ server_rx' = Tail(server_rx)
          /\ pc' = [pc EXCEPT ![r] = "n_ser"]
          /\ UNCHANGED ekind
       \/ /\ server_rx = << >>
          /\ ~respTxAlive
          /\ ekind' = [ekind EXCEPT ![r] = "SendNetworkCommandActivate"]
          /\ pc' = [pc EXCEPT ![r] = "exit"]
          /\ UNCHANGED <<got, server_rx>>
    /\ UNCHANGED <<gateway, lock, network_tx, exit_tx, cmdLog, ctl, req, result, reply>>

\* server_rx.recv(): takes the oldest response; blocks while there is none and
\* the sender lives; fails when there is none and the sender is gone.
networks_recv(r) ==
    /\ pc[r] = "n_recv"
    /\ \/ /\ server_rx # << >>
          /\ got' = [got EXCEPT ![r] = Head(server_rx)]
          /\ server_rx' = Tail(server_rx)
          /\ pc' = [pc EXCEPT ![r] = "n_ser"]
          /\ UNCHANGED ekind
       \/ /\ server_rx = << >>
          /\ ~respTxAlive
          /\ ekind' = [ekind EXCEPT ![r] = "RecvAccessPointSSIDs"]
          /\ pc' = [pc EXCEPT ![r] = "exit"]
          /\ UNCHANGED <<got, server_rx>>
    /\ UNCHANGED <<gateway, lock, network_tx, exit_tx, cmdLog, ctl, req, result, reply>>

\* Variant of networks_respond: the guard is not dropped on the success path.
networks_respond_keeplock(r) ==
    /\ pc[r] = "n_ser"
    /\ LET enc == to_string(got[r].networks) IN
       IF enc.ok
       THEN /\ result' = [result EXCEPT ![r] = OkResponse(enc.json)]
            /\ pc' = [pc EXCEPT ![r] = "after"]
            /\ UNCHANGED ekind
       ELSE /\ ekind' = [ekind EXCEPT ![r] = "SerializeAccessPointSSIDs"]
            /\ pc' = [pc EXCEPT ![r] = "exit"]
            /\ UNCHANGED result
    /\ UNCHANGED <<gateway, lock, chans, ctl, req, got, reply>>

\* serde_json::to_string(&networks) and the return of Ok(200, json), which
\* drops the guard.
networks_respond(r) ==
    /\ pc[r] = "n_ser"
    /\ LET enc == to_string(got[r].networks) IN
       IF enc.ok
       THEN /\ result' = [result EXCEPT ![r] = OkResponse(enc.json)]
            /\ lock' = 0
            /\ pc' = [pc EXCEPT ![r] = "after"]
            /\ UNCHANGED ekind
       ELSE /\ ekind' = [ekind EXCEPT ![r] = "SerializeAccessPointSSIDs"]
            /\ pc' = [pc EXCEPT ![r] = "exit"]
            /\ UNCHANGED <<result, lock>>
    /\ UNCHANGED <<gateway, chans, ctl, req, got, reply>>

\* ------------------------------------------------------------------ connect

\* Variant of connect_params: a parameter failure is escalated like a channel failure.
connect_params_escalate(r) ==
    /\ pc[r] = "c_params"
    /\ LET p == req[r].params
           bad == {n \in ParamNames : ~get_param(p, n).ok}
       IN  IF bad # {}
           THEN /\ ekind' = [ekind EXCEPT ![r] = "ParamMissing"]
                /\ pc' = [pc EXCEPT ![r] = "exit"]
           ELSE /\ pc' = [pc EXCEPT ![r] = "c_lock"]
                /\ UNCHANGED ekind
    /\ UNCHANGED <<gateway, lock, chans, ctl, req, got, result, reply>>

\* The three get_param! of connect, in order; the first that fails returns
\* its 500 from the handler.
connect_params(r) ==
    /\ pc[r] = "c_params"
    /\ LET p == req[r].params
           ssid == get_param(p, "ssid")
           identity == get_param(p, "identity")
           passphrase == get_param(p, "passphrase")
       IN  IF ~ssid.ok
           THEN /\ result' = [result EXCEPT ![r] = IronError(ssid.err, 500)]
                /\ pc' = [pc EXCEPT ![r] = "after"]
           ELSE IF ~identity.ok
           THEN /\ result' = [result EXCEPT ![r] = IronError(identity.err, 500)]
                /\ pc' = [pc EXCEPT ![r] = "after"]
           ELSE IF ~passphrase.ok
           THEN /\ result' = [result EXCEPT ![r] = IronError(passphrase.err, 500)]
                /\ pc' = [pc EXCEPT ![r] = "after"]
           ELSE /\ pc' = [pc EXCEPT ![r] = "c_lock"]
                /\ UNCHANGED result
    /\ UNCHANGED <<gateway, lock, chans, ctl, req, ekind, got, reply>>

\* Variant of connect_lock: the handler does not wait for the mutex.
connect_lock_nowait(r) ==
    /\ pc[r] = "c_lock"
    /\ lock' = r
    /\ pc' = [pc EXCEPT ![r] = "c_send"]
    /\ UNCHANGED <<gateway, chans, ctl, req, ekind, got, result, reply>>

\* get_request_state!(req) in connect.
connect_lock(r) ==
    /\ pc[r] = "c_lock"
    /\ lock = 0
    /\ lock' = r
    /\ pc' = [pc EXCEPT ![r] = "c_send"]
    /\ UNCHANGED <<gateway, chans, ctl, req, ekind, got, result, reply>>

\* Variant of connect_send: the guard is not dropped on the success path.
connect_send_keeplock(r) ==
    /\ pc[r] = "c_send"
    /\ LET p == req[r].params
           command == Connect(get_param(p, "ssid").value, get_param(p, "identity").value,
                              get_param(p, "passphrase").value)
       IN  IF cmdRxAlive
           THEN /\ network_tx' = Append(network_tx, [cmd |-> command, id |-> Len(cmdLog) + 1])
                /\ cmdLog' = Append(cmdLog, [cmd |-> command, by |-> r])
                /\ result' = [result EXCEPT ![r] = OkResponse(<< >>)]
                /\ pc' = [pc EXCEPT ![r] = "after"]
                /\ UNCHANGED ekind
           ELSE /\ ekind' = [ekind EXCEPT ![r] = "SendNetworkCommandConnect"]
                /\ pc' = [pc EXCEPT ![r] = "exit"]
                /\ UNCHANGED <<network_tx, cmdLog, result>>
    /\ UNCHANGED <<gateway, lock, server_rx, exit_tx, ctl, req, got, reply>>

\* Variant of connect_send: identity and passphrase change places in the command.
connect_send_swapped(r) ==
    /\ pc[r] = "c_send"
    /\ LET p == req[r].params
           command == Connect(get_param(p, "ssid").value, get_param(p, "passphrase").value,
                              get_param(p, "identity").value)
       IN  IF cmdRxAlive
           THEN /\ network_tx' = Append(network_tx, [cmd |-> command, id |-> Len(cmdLog) + 1])
                /\ cmdLog' = Append(cmdLog, [cmd |-> command, by |-> r])
                /\ result' = [result EXCEPT ![r] = OkResponse(<< >>)]
                /\ lock' = 0
                /\ pc' = [pc EXCEPT ![r] = "after"]
                /\ UNCHANGED ekind
           ELSE /\ ekind' = [ekind EXCEPT ![r] = "SendNetworkCommandConnect"]
                /\ pc' = [pc EXCEPT ![r] = "exit"]
                /\ UNCHANGED <<network_tx, cmdLog, result, lock>>
    /\ UNCHANGED <<gateway, server_rx, exit_tx, ctl, req, got, reply>>

\* network_tx.send(Connect{..}); on success the handler returns Ok(200) with
\* no body, and its guard is dropped.
connect_send(r) ==
    /\ pc[r] = "c_send"
    /\ LET p == req[r].params
           command == Connect(get_param(p, "ssid").value, get_param(p, "identity").value,
                              get_param(p, "passphrase").value)
       IN  IF cmdRxAlive
           THEN /\ network_tx' = Append(network_tx, [cmd |-> command, id |-> Len(cmdLog) + 1])
                /\ cmdLog' = Append(cmdLog, [cmd |-> command, by |-> r])
                /\ result' = [result EXCEPT ![r] = OkResponse(<< >>)]
                /\ lock' = 0
                /\ pc' = [pc EXCEPT ![r] = "after"]
                /\ UNCHANGED ekind
           ELSE /\ ekind' = [ekind EXCEPT ![r] = "SendNetworkCommandConnect"]
                /\ pc' = [pc EXCEPT ![r] = "exit"]
                /\ UNCHANGED <<network_tx, cmdLog, result, lock>>
    /\ UNCHANGED <<gateway, server_rx, exit_tx, ctl, req, got, reply>>

\* ------------------------------------------------------------------ after chain

\* Variant of after_ok: a success of a request for another host is redirected too.
after_ok_redirect(r) ==
    /\ pc[r] = "after"
    /\ result[r].ok
    /\ LET gw == format_ip(gateway) IN
       reply' = [reply EXCEPT ![r] =
                    IF req[r].host.present /\ req[r].host.hostname # gw
                    THEN Found("http://" \o gw \o "/")
                    ELSE result[r]]
    /\ pc' = [pc EXCEPT ![r] = "done"]
    /\ UNCHANGED <<gateway, lock, chans, ctl, req, ekind, got, result>>

\* A handler's Ok passes through every after middleware unchanged.
after_ok(r) ==
    /\ pc[r] = "after"
    /\ result[r].ok
    /\ reply' = [reply EXCEPT ![r] = result[r]]
    /\ pc' = [pc EXCEPT ![r] = "done"]
    /\ UNCHANGED <<gateway, lock, chans, ctl, req, ekind, got, result>>

\* RedirectMiddleware::catch, first block: lock the shared state to read the gateway.
catch_lock(r) ==
    /\ pc[r] = "after"
    /\ ~result[r].ok
    /\ lock = 0
    /\ lock' = r
    /\ pc' = [pc EXCEPT ![r] = "catch"]
    /\ UNCHANGED <<gateway, chans, ctl, req, ekind, got, result, reply>>

\* Variant of catch_redirect: every failure that declares a host is redirected.
catch_redirect_any(r) ==
    /\ pc[r] = "catch"
    /\ lock' = 0
    /\ LET gw == format_ip(gateway) IN
       reply' = [reply EXCEPT ![r] =
                    IF req[r].host.present
                    THEN Found("http://" \o gw \o "/")
                    ELSE result[r]]
    /\ pc' = [pc EXCEPT ![r] = "done"]
    /\ UNCHANGED <<gateway, chans, ctl, req, ekind, got, result>>

\* Variant of catch_redirect: a request without a Host header is redirected too.
catch_redirect_nohost(r) ==
    /\ pc[r] = "catch"
    /\ lock' = 0
    /\ LET gw == format_ip(gateway) IN
       reply' = [reply EXCEPT ![r] =
                    IF req[r].host.hostname # gw
                    THEN Found("http://" \o gw \o "/")
                    ELSE result[r]]
    /\ pc' = [pc EXCEPT ![r] = "done"]
    /\ UNCHANGED <<gateway, chans, ctl, req, ekind, got, result>>

\* RedirectMiddleware::catch, the rest: the guard is dropped at the end of the
\* block; a declared host other than the gateway is redirected to it.
catch_redirect(r) ==
    /\ pc[r] = "catch"
    /\ lock' = 0
    /\ LET gw == format_ip(gateway) IN
       reply' = [reply EXCEPT ![r] =
                    IF req[r].host.present /\ req[r].host.hostname # gw
                    THEN Found("http://" \o gw \o "/")
                    ELSE result[r]]
    /\ pc' = [pc EXCEPT ![r] = "done"]
    /\ UNCHANGED <<gateway, chans, ctl, req, ekind, got, result>>

\* ------------------------------------------------------------------ controller

\* The network controller takes the oldest command and produces one response
\* for it.
controller_answer(l) ==
    /\ cmdRxAlive
    /\ respTxAlive
    /\ network_tx # << >>
    /\ network_tx' = Tail(network_tx)
    /\ server_rx' = Append(server_rx, [networks |-> l, for |-> Head(network_tx).id])
    /\ respLog' = Append(respLog, [networks |-> l, for |-> Head(network_tx).id])
    /\ UNCHANGED <<gateway, lock, exit_tx, cmdLog, cmdRxAlive, respTxAlive, exitRxAlive,
                   server, pc, req, ekind, got, result, reply>>

\* The controller goes away: its receiver of commands is dropped with the
\* commands not yet taken, and its sender of responses is dropped (responses
\* already sent stay receivable).
controller_exit ==
    /\ cmdRxAlive
    /\ cmdRxAlive' = FALSE
    /\ respTxAlive' = FALSE
    /\ network_tx' = << >>
    /\ UNCHANGED <<gateway, lock, server_rx, exit_tx, cmdLog, respLog, exitRxAlive,
                   server, pc, req, ekind, got, result, reply>>

\* ------------------------------------------------------------------ specification

Next ==
    \/ start_server_listen
    \/ start_server_fail
    \/ \E r \in Reqs : \E q \in RequestInputs : Dispatch(r, q)
    \/ \E r \in Reqs : StaticHandle(r)
    \/ \E r \in Reqs : networks_lock(r)
    \/ \E r \in Reqs : networks_send(r)
    \/ \E r \in Reqs : networks_recv(r)
    \/ \E r \in Reqs : networks_respond(r)
    \/ \E r \in Reqs : connect_params(r)
    \/ \E r \in Reqs : connect_lock(r)
    \/ \E r \in Reqs : connect_send(r)
    \/ \E r \in Reqs : exit_with_error(r)
    \/ \E r \in Reqs : after_ok(r)
    \/ \E r \in Reqs : catch_lock(r)
    \/ \E r \in Reqs : catch_redirect(r)
    \/ \E l \in NetLists : controller_answer(l)
    \/ controller_exit

Spec == Init /\ [][Next]_vars

\* The steps of the worker serving request r, once dispatched.
Step(r) ==
    \/ StaticHandle(r)
    \/ networks_lock(r)
    \/ networks_send(r)
    \/ networks_recv(r)
    \/ networks_respond(r)
    \/ connect_params(r)
    \/ connect_lock(r)
    \/ connect_send(r)
    \/ exit_with_error(r)
    \/ after_ok(r)
    \/ catch_lock(r)
    \/ catch_redirect(r)

\* The process supervisor drops the receiver of the shutdown channel.
supervisor_close ==
    /\ exitRxAlive
    /\ exitRxAlive' = FALSE
    /\ UNCHANGED <<gateway, lock, chans, cmdRxAlive, respTxAlive, respLog, server,
                   pc, req, ekind, got, result, reply>>

\* The server in a wider environment: the shutdown channel may lose its
\* receiver, and the controller may answer with a list that cannot be encoded.
NextEnv ==
    \/ Next
    \/ supervisor_close
    \/ controller_answer(BadList)

SpecEnv == Init /\ [][NextEnv]_vars

\* Workers are threads the scheduler runs and the mutex serves fairly; the
\* controller answers the commands it has taken for as long as it lives.
Fairness ==
    /\ \A r \in Reqs : SF_vars(Step(r))
    /\ WF_vars(\E l \in NetLists \cup {BadList} : controller_answer(l))

SpecFair == SpecEnv /\ Fairness

\* ------------------------------------------------------------------ vocabulary of the properties

Received(r) == got[r] # NoResponse

\* No Connect command was sent before the command of request r.
NoConnectBefore(r) == \A i \in 1..cmdIdx(r) : cmdLog[i].cmd.type # "Connect"

\* Signals on the shutdown channel sent for request r.
Signals(r) == Cardinality({i \in 1..Len(exit_tx) : exit_tx[i].by = r})

\* The handler of r has returned.
Returned(r) == pc[r] \in {"after", "catch", "done"}

\* A connect request with a parameter absent or not a string.
ParamFailed(r) ==
    /\ req[r].route = "connect"
    /\ \E n \in ParamNames : req[r].params[n].tag # "String"

\* The handler of r failed on the command channel or on the response channel.
ChannelFailed(r) ==
    ekind[r] \in {"SendNetworkCommandActivate", "RecvAccessPointSSIDs",
                  "SendNetworkCommandConnect"}

\* r declared a host that is not the gateway address.
ForeignHost(r) == req[r].host.present /\ req[r].host.hostname # "192.168.42.1"

GatewayUrl == "http://192.168.42.1/"

\* Responses taken from the response channel so far.
Consumed == Len(respLog) - Len(server_rx)

\* Commands sent and not matched by a consumed response.
InFlight == Len(cmdLog) - Consumed

\* Requests that sent Activate and neither received a response nor failed.
Awaiting ==
    {r \in Reqs : req[r].route = "networks" /\ cmdIdx(r) # 0 /\ ~Received(r)
                  /\ ekind[r] = "None"}

\* ------------------------------------------------------------------ C1

C4_EscalationReplies500 ==
    \A r \in Reqs :
        /\ pc[r] = "done" /\ ChannelFailed(r) => Signals(r) = 1 /\ reply[r].status = 500
        /\ ParamFailed(r) => Signals(r) = 0

\* C4 (amended): a request that failed on a channel has sent exactly one
\* shutdown signal, which the shutdown channel holds while its receiving end
\* is open, and its handler returns a 500; the client receives that 500
\* unless the request declared a host other than the gateway, in which case
\* it receives the redirect; a parameter failure sends no shutdown signal.
C4_EscalationOneSignal ==
    \A r \in Reqs :
        /\ Returned(r) /\ ChannelFailed(r) =>
              /\ Signals(r) <= 1 /\ (exitRxAlive => Signals(r) = 1)
              /\ ~result[r].ok /\ result[r].status = 500
        /\ pc[r] = "done" /\ ChannelFailed(r) =>
              reply[r].status = IF ForeignHost(r) THEN 302 ELSE 500
        /\ ParamFailed(r) => Signals(r) = 0

C4_Witness ==
    \E r, q \in Reqs :
        /\ pc[r] = "done" /\ ekind[r] = "RecvAccessPointSSIDs"
        /\ Signals(r) = 1 /\ reply[r].status = 500
        /\ pc[q] = "done" /\ ekind[q] = "SendNetworkCommandConnect"
        /\ Signals(q) = 1

\* ------------------------------------------------------------------ C5

\* C5 (as stated): a connect request with a parameter absent or not a string
\* replies 500 to the client and sends no command.
C5_BadParams500 ==
    \A r \in Reqs :
        ParamFailed(r) /\ pc[r] = "done" => reply[r].status = 500 /\ cmdIdx(r) = 0

\* C5 (amended): a connect request with a parameter absent or not a string
\* sends no command and its handler returns a 500; the client receives that
\* 500 unless the request declared a host other than the gateway, in which
\* case it receives the redirect.
C5_BadParamsNoCommand ==
    \A r \in Reqs :
        ParamFailed(r) =>
            /\ cmdIdx(r) = 0
            /\ pc[r] \notin {"c_lock", "c_send"}
            /\ Returned(r) => ~result[r].ok /\ result[r].status = 500
            /\ pc[r] = "done" => reply[r].status = IF ForeignHost(r) THEN 302 ELSE 500

C5_Witness ==
    \E r \in Reqs :
        /\ req[r].route = "connect" /\ req[r].params.identity.tag = "Array"
        /\ pc[r] = "done" /\ reply[r].status = 500 /\ cmdIdx(r) = 0

\* ------------------------------------------------------------------ C6

\* C6: a failed request that declared a host other than the gateway receives
\* a 302 to http://<gateway>/; one that declared the gateway receives the
\* original failure unchanged.
C6_RedirectOnFailure ==
    \A r \in Reqs :
        pc[r] = "done" /\ ~result[r].ok =>
            /\ ForeignHost(r) =>
                  reply[r].ok /\ reply[r].status = 302 /\ reply[r].location = GatewayUrl
            /\ req[r].host.present /\ ~ForeignHost(r) => reply[r] = result[r]

C6_Witness ==
    \E r, q \in Reqs :
        /\ pc[r] = "done" /\ ~result[r].ok /\ ForeignHost(r) /\ reply[r].status = 302
        /\ pc[q] = "done" /\ ~result[q].ok /\ req[q].host.present /\ ~ForeignHost(q)
        /\ reply[q].status \in {404, 500}

\* ------------------------------------------------------------------ C7

\* C7 (as stated): at most one shutdown signal is sent during the life of the
\* server.
C7_SingleShutdown == Len(exit_tx) <= 1

\* C7 (amended): one shutdown signal is sent for each request that escalates,
\* so the shutdown channel, while its receiving end is open, holds as many
\* request signals as requests have escalated.
C7_OneSignalPerEscalation ==
    /\ \A r \in Reqs : Signals(r) <= 1
    /\ exitRxAlive =>
          Cardinality({i \in 1..Len(exit_tx) : exit_tx[i].by \in Reqs})
              = Cardinality({r \in Reqs : Returned(r) /\ ekind[r] # "None"})

C7_Witness == Len(exit_tx) = 2 /\ exit_tx[1].by # exit_tx[2].by

\* ------------------------------------------------------------------ C8

\* C8: a connect request that fails parameter validation returns from the
\* handler without acquiring the lock, and no step of it changes the command,
\* response or shutdown channel.
C8_LocalFailure ==
    [][\A r \in Reqs :
          ParamFailed(r) /\ pc'[r] # pc[r] =>
              /\ pc'[r] \notin {"c_lock", "c_send", "exit"}
              /\ UNCHANGED <<network_tx, server_rx, exit_tx, cmdLog>>
              /\ pc[r] = "c_params" => pc'[r] = "after" /\ lock' = lock]_vars

C8_Witness ==
    \E r, q \in Reqs :
        /\ ParamFailed(r) /\ pc[r] = "after"
        /\ pc[q] = "n_recv" /\ lock = q

\* ------------------------------------------------------------------ C9

C10_LockHeldAcrossCall ==
    [][\A r \in Reqs :
          pc[r] = "n_recv" =>
              /\ lock = r
              /\ cmdLog' = cmdLog
              /\ \A q \in Reqs \ {r} : got'[q] = got[q]
              /\ Len(server_rx') < Len(server_rx) => got'[r] = Head(server_rx)]_vars

C10_Witness ==
    \E r, q \in Reqs :
        /\ pc[r] = "n_recv"
        /\ pc[q] \in {"n_lock", "c_lock"}

\* ------------------------------------------------------------------ vocabulary, continued

\* The worker of r is in a call that does not return in this state:
\* Mutex::lock while the lock is taken, Receiver::recv while the response
\* channel is empty and its sender alive.
Waits(r) ==
    \/ pc[r] \in {"n_lock", "c_lock"} /\ lock # 0
    \/ pc[r] = "after" /\ ~result[r].ok /\ lock # 0
    \/ pc[r] = "n_recv" /\ server_rx = << >> /\ respTxAlive

\* The worker of r has work to do and cannot take a step.
Blocked(r) == pc[r] \notin {"idle", "done"} /\ Waits(r)

\* The worker of r can take a step.
Runnable(r) == pc[r] \notin {"idle", "done"} /\ ~Waits(r)

\* Waits is exact: a worker with work to do waits exactly when none of its
\* steps is enabled.
WaitsIsDisabled ==
    \A r \in Reqs : pc[r] \notin {"idle", "done"} => (Waits(r) <=> ~ENABLED Step(r))

\* r is about to acquire the shared-state lock.
WantsLock(r) == pc[r] \in {"n_lock", "c_lock"} \/ (pc[r] = "after" /\ ~result[r].ok)

\* r never sends a command: a routing failure or a connect with a bad parameter.
NeedsNoController(r) == req[r].route = "missing" \/ ParamFailed(r)

\* The handler of r is between its lock acquisition and its return.
HandlerHolds(r) == pc[r] \in {"n_send", "n_recv", "n_ser", "c_send", "exit"}

\* ------------------------------------------------------------------ C11

\* C11 (as stated): a request that never needs the controller is never kept
\* waiting by a request that waits for the controller's response.
C11_NoControllerNoWait ==
    \A r \in Reqs :
        NeedsNoController(r) =>
            ~(Blocked(r) /\ \E q \in Reqs : lock = q /\ pc[q] = "n_recv" /\ Blocked(q))

\* C11 (amended): a request waits only for its own response inside networks,
\* or for the lock while another request holds it, and that holder either can
\* run or waits for its own response; a failed request that never needs the
\* controller takes the lock in the redirect filter, so it waits for as long
\* as the controller keeps a networks handler waiting; a request served by the
\* static file server never waits.
C11_WaitsOnlyForResponseOrLock ==
    /\ \A r \in Reqs :
          Blocked(r) =>
              \/ pc[r] = "n_recv" /\ lock = r /\ server_rx = << >>
              \/ /\ WantsLock(r)
                 /\ lock \in Reqs \ {r}
                 /\ Runnable(lock) \/ pc[lock] = "n_recv"
    /\ \A r \in Reqs : req[r].route = "asset" => ~Blocked(r)

C11_Witness ==
    \E r, q \in Reqs :
        /\ req[r].route = "missing" /\ pc[r] = "after" /\ Blocked(r)
        /\ lock = q /\ pc[q] = "n_recv" /\ Blocked(q)

\* ------------------------------------------------------------------ C12

\* C12 (as stated): whenever no handler is between its lock acquisition and
\* its return, the lock is free.
C12_LockFreeOutsideHandlers == (\A r \in Reqs : ~HandlerHolds(r)) => lock = 0

\* C12 (amended): a handler that has returned, on any exit path, no longer
\* holds the lock; whenever no handler is between its lock acquisition and its
\* return and no redirect filter is reading the gateway, the lock is free.
C12_LockReleasedOnReturn ==
    /\ \A r \in Reqs : pc[r] = "after" => lock # r
    /\ (\A r \in Reqs : ~HandlerHolds(r) /\ pc[r] # "catch") => lock = 0
    /\ lock # 0 => HandlerHolds(lock) \/ pc[lock] = "catch"

C12_Witness ==
    \E r, q \in Reqs :
        /\ pc[r] = "after" /\ ekind[r] = "SerializeAccessPointSSIDs"
        /\ pc[q] = "done" /\ ekind[q] = "None" /\ cmdIdx(q) # 0
        /\ lock = 0

\* ------------------------------------------------------------------ C13

\* C13: a handler that has entered the escalation path goes on to return its
\* failure response, also when the shutdown channel has lost its receiver.
C13_EscalationReturns == \A r \in Reqs : (pc[r] = "exit") ~> Returned(r)

C13_Witness ==
    \E r \in Reqs :
        /\ Returned(r) /\ ChannelFailed(r) /\ ~exitRxAlive /\ Signals(r) = 0
        /\ ~result[r].ok /\ result[r].status = 500

\* ------------------------------------------------------------------ C14

\* C14: with fair scheduling and a controller that answers the commands it
\* holds or closes its channels, every networks and connect request is
\* eventually replied to.
C14_RequestsComplete ==
    \A r \in Reqs :
        (req[r].route \in {"networks", "connect"}) ~>
            (pc[r] = "done" /\ reply[r].status \in {200, 302, 500})

C14_Witness ==
    \E r, q \in Reqs :
        /\ pc[r] = "done" /\ ekind[r] = "RecvAccessPointSSIDs"
        /\ pc[q] = "done" /\ req[q].route = "networks" /\ reply[q].status = 200

\* ------------------------------------------------------------------ C15

\* The handler of r is past its send.
PastSend(r) == pc[r] \in {"n_recv", "n_ser", "exit", "after", "catch", "done"}

\* The handler of r has failed or returned.
PastCall(r) == pc[r] \in {"exit", "after", "catch", "done"}

\* C15: a networks request escalates with the send kind exactly when its send
\* failed (and then it receives nothing), with the receive kind exactly when
\* its send succeeded and its receive failed, with the serialize kind exactly
\* when it received a list that could not be encoded; it is signalled under
\* that one kind only.
C15_KindNamesPhase ==
    \A r \in Reqs :
        req[r].route = "networks" =>
            /\ ekind[r] = "SendNetworkCommandActivate" <=> PastSend(r) /\ cmdIdx(r) = 0
            /\ ekind[r] = "SendNetworkCommandActivate" => ~Received(r)
            /\ ekind[r] = "RecvAccessPointSSIDs" <=>
                  PastCall(r) /\ cmdIdx(r) # 0 /\ ~Received(r)
            /\ ekind[r] = "SerializeAccessPointSSIDs" <=>
                  PastCall(r) /\ Received(r) /\ BadList = got[r].networks
            /\ Signals(r) <= 1
            /\ \A i \in 1..Len(exit_tx) : exit_tx[i].by = r => exit_tx[i].kind = ekind[r]

C15_Witness ==
    \E r, q \in Reqs :
        /\ Returned(r) /\ ekind[r] = "SerializeAccessPointSSIDs" /\ Signals(r) = 1
        /\ Returned(q) /\ ekind[q] \in {"RecvAccessPointSSIDs", "SendNetworkCommandActivate"}
        /\ Signals(q) = 1

\* ------------------------------------------------------------------ C16

\* Commands request r has sent.
CommandsOf(r) == {i \in 1..Len(cmdLog) : cmdLog[i].by = r}

\* C16: a connect request whose three parameters are strings and whose send
\* succeeds has sent exactly one command, the Connect carrying its ssid,
\* identity and passphrase unchanged, and replies 200 with no body; when its
\* send fails it has sent nothing and escalates.
C16_ConnectSendsParams ==
    \A r \in Reqs :
        req[r].route = "connect" /\ ~ParamFailed(r) /\ Returned(r) =>
            /\ result[r].ok =>
                  /\ Cardinality(CommandsOf(r)) = 1
                  /\ cmdLog[cmdIdx(r)].cmd =
                        [type |-> "Connect", ssid |-> req[r].params.ssid.s,
                         identity |-> req[r].params.identity.s,
                         passphrase |-> req[r].params.passphrase.s]
                  /\ result[r].status = 200 /\ result[r].body = << >>
                  /\ ekind[r] = "None" /\ Signals(r) = 0
                  /\ pc[r] = "done" => reply[r] = result[r]
            /\ ~result[r].ok =>
                  /\ CommandsOf(r) = {}
                  /\ ekind[r] = "SendNetworkCommandConnect"
                  /\ Signals(r) <= 1 /\ (exitRxAlive => Signals(r) = 1)

C16_Witness ==
    \E r \in Reqs :
        /\ req[r].route = "connect" /\ pc[r] = "done" /\ ForeignHost(r)
        /\ reply[r].status = 200 /\ reply[r].body = << >>
        /\ cmdLog[cmdIdx(r)].cmd.identity = "" /\ cmdLog[cmdIdx(r)].cmd.passphrase = "secret"

\* ------------------------------------------------------------------ C17

\* C17: when the listener could not start, exactly one signal, classified
\* StartHTTPServer, has been sent (the channel holds it while its receiving
\* end is open), no request was served, no command was sent
\* and no response was received; that signal is sent in no other case.
C17_BindFailureEscalates ==
    /\ server = "failed" =>
          /\ Len(exit_tx) <= 1
          /\ exitRxAlive => exit_tx = <<[kind |-> "StartHTTPServer", by |-> 0]>>
          /\ \A r \in Reqs : pc[r] = "idle" /\ ~Received(r)
          /\ cmdLog = << >> /\ network_tx = << >>
    /\ \A i \in 1..Len(exit_tx) : exit_tx[i].kind = "StartHTTPServer" => server = "failed"

C17_Witness == server = "failed" /\ Len(exit_tx) = 1

\* ------------------------------------------------------------------ C18

\* The decision of the redirect filter.
FilterDecision(failed, host) ==
    IF failed /\ host.present /\ host.hostname # "192.168.42.1" THEN "redirect" ELSE "pass"

\* C18: what the client receives is decided by whether the handler failed, by
\* the request's host and by the gateway alone, whatever the channels, the
\* shutdown channel and the other requests hold; a success is never turned
\* into a redirect.
C18_FilterIsAFunction ==
    \A r \in Reqs :
        pc[r] = "done" =>
            /\ reply[r] = IF FilterDecision(~result[r].ok, req[r].host) = "redirect"
                          THEN Found(GatewayUrl) ELSE result[r]
            /\ result[r].ok => reply[r].status # 302

C18_Witness ==
    \E r, q \in Reqs :
        /\ pc[r] = "done" /\ result[r].ok /\ ForeignHost(r) /\ reply[r].status = 200
        /\ pc[q] = "done" /\ ~result[q].ok /\ ForeignHost(q) /\ reply[q].status = 302
        /\ exit_tx # << >>

\* ------------------------------------------------------------------ C19

\* C19: a failed request that declares no host receives its failure unchanged.
C19_NoHostNoRedirect ==
    \A r \in Reqs :
        pc[r] = "done" /\ ~result[r].ok /\ ~req[r].host.present =>
            reply[r] = result[r] /\ reply[r].status \in {404, 500}

C19_Witness ==
    \E r, q \in Reqs :
        /\ pc[r] = "done" /\ ~req[r].host.present /\ reply[r].status = 404
        /\ pc[q] = "done" /\ ~req[q].host.present /\ reply[q].status = 500

\* ------------------------------------------------------------------ C20

\* C20: a worker about to acquire the lock does not hold it, so the redirect
\* filter of a failed request locks only after the handler's guard is
\* dropped; when no worker can run, some networks handler holds the lock
\* waiting for the controller's response.
C20_NoSelfDeadlock ==
    /\ \A r \in Reqs : WantsLock(r) => lock # r
    /\ ((\E r \in Reqs : pc[r] \notin {"idle", "done"}) /\ (\A r \in Reqs : ~Runnable(r))) =>
          \E q \in Reqs : pc[q] = "n_recv" /\ lock = q /\ server_rx = << >> /\ respTxAlive

C20_Witness ==
    \E r, q \in Reqs :
        /\ pc[r] = "catch" /\ lock = r /\ ekind[r] = "RecvAccessPointSSIDs"
        /\ WantsLock(q)

====
